---- MODULE Spec2Model ----
(***************************************************************************)
(* A model of @sanity-labs/secret-scan: scan(input) and redact(input,      *)
(* replacer) of src/src/index.ts, with shannonEntropy of src/src/entropy.ts*)
(* and the global allowlist that scripts/update-rules.ts writes into the   *)
(* generated rule file.                                                    *)
(*                                                                         *)
(* A string is a sequence of UTF-16 code units, each written as a          *)
(* one-character TLA+ string.  Offsets are 0-based, as in the code; the    *)
(* helpers below translate to the 1-based sequences of TLA+.               *)
(***************************************************************************)
EXTENDS Integers, Sequences, FiniteSets, TLC

VARIABLES
    input,                 \* the string handed to scan / redact
    rules,                 \* index.ts:14, the combined rule list
    keywordIndex,          \* index.ts:38, keyword -> rules, in insertion order
    rulesWithoutKeywords,  \* index.ts:39
    pc,                    \* position of the running call
    candidates,            \* scan: the Set<Rule> of getCandidateRules, in insertion order
    ci,                    \* scan: position of the for-of loop in candidates (1-based)
    lastIndex,             \* scan: lastIndex of the call-local RegExp copy
    execs,                 \* number of regex.exec calls made on the current rule
    allMatches,            \* scan: phase 1 pool
    secrets,               \* scan: the returned list
    replacer,              \* redact: the caller's replacer function
    nextId,                \* redact: the counter a stateful replacer closes over
    result,                \* redact: the string being rewritten
    ri,                    \* redact: loop index i (0-based, counts down)
    calls,                 \* redact: the replacer calls made so far
    allowlistLastIndex,    \* lastIndex of the rules' allowlist regexes, by rule id
    returns,               \* the lists the scan calls made so far have returned
    detectors,             \* update-rules: the extracted detectors, in order
    gi,                    \* update-rules: detectors handled so far
    ruleIds,               \* the ids of the rules emitted, then of the active corpus
    skippedIds,            \* update-rules: the detector ids reported as skipped
    entropyArg,            \* shannonEntropy called on its own: its argument s
    entropy                \* shannonEntropy called on its own: the value returned

vars == <<input, rules, keywordIndex, rulesWithoutKeywords, pc, candidates, ci,
          lastIndex, execs, allMatches, secrets, replacer, nextId, result, ri, calls,
          allowlistLastIndex, returns, detectors, gi, ruleIds, skippedIds,
          entropyArg, entropy>>

(***************************************************************************)
(* Bounds of the model.                                                    *)
(***************************************************************************)
MaxLen == 4

MaxRules == 2

\* longest run of characters after a known prefix in a prefixed input
MaxSuffix == 3

\* most scan calls followed one after the other
MaxCalls == 2

\* most converted patterns of one detector
MaxPatterns == 2

\* most patterns of one detector that fail to convert or compile
MaxFailed == 1

\* largest pool of candidates of which every order is resolved
MaxPermuted == 3

\* longest argument of a shannonEntropy call made on its own, in code units
MaxEntropyLen == 4

(***************************************************************************)
(* JavaScript string primitives used by the code.                          *)
(***************************************************************************)
Min(a, b) == IF a < b THEN a ELSE b

Max(a, b) == IF a > b THEN a ELSE b

\* String.prototype.slice(from, to): negative arguments count from the end,
\* both are clamped to the string, an empty range gives "".
Slice(s, from, to) ==
    LET len == Len(s)
        f   == IF from < 0 THEN Max(len + from, 0) ELSE Min(from, len)
        t   == IF to < 0 THEN Max(len + to, 0) ELSE Min(to, len)
    IN  IF f >= t THEN <<>> ELSE SubSeq(s, f + 1, t)

\* String.prototype.slice(from)
SliceFrom(s, from) == Slice(s, from, Len(s))

\* sub occurs in s at 0-based offset i
OccursAt(s, sub, i) ==
    /\ i >= 0
    /\ i + Len(sub) <= Len(s)
    /\ \A k \in 1..Len(sub) : s[i + k] = sub[k]

\* String.prototype.indexOf(sub, from): the first offset >= from, or -1
IndexOf(s, sub, from) ==
    LET start == Min(Max(from, 0), Len(s))
        hits  == {i \in start..Len(s) : OccursAt(s, sub, i)}
    IN  IF hits = {} THEN -1 ELSE CHOOSE i \in hits : \A j \in hits : i <= j

\* String.prototype.lastIndexOf(sub, from): the last offset <= from, or -1;
\* a negative from is taken as 0
LastIndexOf(s, sub, from) ==
    LET start == Min(Max(from, 0), Len(s))
        hits  == {i \in 0..start : OccursAt(s, sub, i)}
    IN  IF hits = {} THEN -1 ELSE CHOOSE i \in hits : \A j \in hits : i >= j

\* String.prototype.includes(sub)
Includes(s, sub) == IndexOf(s, sub, 0) >= 0

\* String.prototype.startsWith(prefix)
StartsWith(s, prefix) == OccursAt(s, prefix, 0)

UpperLetters ==
    <<"A","B","C","D","E","F","G","H","I","J","K","L","M",
      "N","O","P","Q","R","S","T","U","V","W","X","Y","Z">>

LowerLetters ==
    <<"a","b","c","d","e","f","g","h","i","j","k","l","m",
      "n","o","p","q","r","s","t","u","v","w","x","y","z">>

ToLowerChar(c) ==
    IF \E k \in 1..Len(UpperLetters) : UpperLetters[k] = c
    THEN LowerLetters[CHOOSE k \in 1..Len(UpperLetters) : UpperLetters[k] = c]
    ELSE c

\* String.prototype.toLowerCase()
ToLowerCase(s) == [k \in 1..Len(s) |-> ToLowerChar(s[k])]

(***************************************************************************)
(* entropy.ts.  Entropy values are fixed-point numbers in millionths of a  *)
(* bit (1500000 is 1.5); Log2Micro[k] is log2(k) in that unit.             *)
(***************************************************************************)
Log2Micro ==
    <<0, 1000000, 1584963, 2000000, 2321928, 2584963, 2807355, 3000000,
      3169925, 3321928, 3459432, 3584963, 3700440, 3807355, 3906891, 4000000>>

\* The two halves of a character outside the Basic Multilingual Plane.
HighSurrogates == {"\\uD83D"}

LowSurrogates == {"\\uDE00", "\\uDE01"}

\* `for (const ch of s)`: the string iterator yields code points, a high
\* surrogate followed by a low one being a single two-unit element.
RECURSIVE CodePoints(_)
CodePoints(s) ==
    IF s = <<>> THEN <<>>
    ELSE IF Len(s) >= 2 /\ s[1] \in HighSurrogates /\ s[2] \in LowSurrogates
         THEN <<SubSeq(s, 1, 2)>> \o CodePoints(SubSeq(s, 3, Len(s)))
         ELSE <<SubSeq(s, 1, 1)>> \o CodePoints(SubSeq(s, 2, Len(s)))

\* freq.get(ch) after the counting loop
Freq(cps, ch) == Cardinality({k \in 1..Len(cps) : cps[k] = ch})

\* sum over the map's values of -p * log2(p) * len, p = count / len
RECURSIVE EntropyTerms(_, _, _)
EntropyTerms(chs, cps, len) ==
    IF chs = {} THEN 0
    ELSE LET ch    == CHOOSE x \in chs : TRUE
             count == Freq(cps, ch)
         IN  count * (Log2Micro[len] - Log2Micro[count])
             + EntropyTerms(chs \ {ch}, cps, len)

shannonEntropy(s) ==
    IF Len(s) = 0 THEN 0
    ELSE LET cps == CodePoints(s)
         IN  EntropyTerms({cps[k] : k \in 1..Len(cps)}, cps, Len(s)) \div Len(s)

(***************************************************************************)
(* Placeholder detection, index.ts:57-99.                                  *)
(***************************************************************************)
MIN_SUFFIX_ENTROPY == 1500000

KNOWN_PREFIXES == <<
      <<"s","k","-","p","r","o","j","-">>,
      <<"s","k","-","s","v","c","a","c","c","t","-">>,
      <<"s","k","-","a","d","m","i","n","-">>,
      <<"s","k","-","a","n","t","-","a","p","i","0","3","-">>,
      <<"s","k","_","l","i","v","e","_">>,
      <<"s","k","_","t","e","s","t","_">>,
      <<"p","k","_","l","i","v","e","_">>,
      <<"p","k","_","t","e","s","t","_">>,
      <<"r","k","_","l","i","v","e","_">>,
      <<"r","k","_","t","e","s","t","_">>,
      <<"g","h","p","_">>,
      <<"g","h","o","_">>,
      <<"g","h","u","_">>,
      <<"g","h","s","_">>,
      <<"g","h","r","_">>,
      <<"g","i","t","h","u","b","_","p","a","t","_">>,
      <<"x","o","x","b","-">>,
      <<"x","o","x","p","-">>,
      <<"x","o","x","a","-">>,
      <<"x","o","x","o","-">>,
      <<"x","a","p","p","-">>,
      <<"g","l","p","a","t","-">>,
      <<"g","l","s","a","_">>,
      <<"n","p","m","_">>,
      <<"l","i","n","_","a","p","i","_">>,
      <<"g","s","k","_">>,
      <<"r","8","_">>,
      <<"s","b","p","_">>,
      <<"s","k","_">>,
      <<"S","G",".">>,
      <<"d","p",".","p","t",".">>,
      <<"P","M","A","K","-">>,
      <<"s","i","g","n","k","e","y","-","p","r","o","d","-">>,
      <<"s","i","g","n","k","e","y","-","t","e","s","t","-">>,
      <<"s","i","g","n","k","e","y","-","s","t","a","g","i","n","g","-">>,
      <<"s","k","-">>,
      <<"A","K","I","A">> >>

\* a loop in which every matching prefix replaces the current one, so that
\* the last matching prefix of the list is kept
LastMatchingPrefix(secret, n) ==
    LET known == {k \in 1..n : StartsWith(secret, KNOWN_PREFIXES[k])}
    IN  IF known = {} THEN <<>>
        ELSE KNOWN_PREFIXES[CHOOSE k \in known : \A j \in known : j <= k]

\* The loop of index.ts:81-86 over the first n prefixes: a later prefix
\* replaces the current one only when it is strictly longer.
RECURSIVE LongestPrefix(_, _)
LongestPrefix(secret, n) ==
    IF n = 0 THEN <<>>
    ELSE LET longestPrefix == LongestPrefix(secret, n - 1)
             prefix        == KNOWN_PREFIXES[n]
         IN  IF StartsWith(secret, prefix) /\ Len(prefix) > Len(longestPrefix)
             THEN prefix
             ELSE longestPrefix

\* a placeholder check that measures the whole secret, prefix included
isPlaceholderWholeSecret(secret) ==
    LET longestPrefix == LongestPrefix(secret, Len(KNOWN_PREFIXES))
    IN  IF longestPrefix = <<>> THEN FALSE
        ELSE shannonEntropy(secret) < MIN_SUFFIX_ENTROPY

isPlaceholder(secret) ==
    LET longestPrefix == LongestPrefix(secret, Len(KNOWN_PREFIXES))
        suffix        == SliceFrom(secret, Len(longestPrefix))
    IN  IF longestPrefix = <<>> THEN FALSE
        ELSE IF Len(suffix) = 0 THEN TRUE
        ELSE shannonEntropy(suffix) < MIN_SUFFIX_ENTROPY

(***************************************************************************)
(* RegExp.  A pattern is a syntax tree; a RegExp value is                  *)
(*   [ast, flags, ngroups]                                                 *)
(* and matching is the backtracking search of ECMAScript: Matches gives    *)
(* the ways a pattern can match at an offset, in the order the engine      *)
(* tries them, so the first is the one exec reports.  A way is             *)
(* [e |-> end offset, g |-> captures], a capture being <<>> (undefined) or *)
(* <<from, to>>.                                                           *)
(***************************************************************************)
Chr(cs) == [t |-> "chr", cs |-> cs]                 \* one character of a class

Cat(rs) == [t |-> "cat", rs |-> rs]                 \* r1 r2 ...

Alt(rs) == [t |-> "alt", rs |-> rs]                 \* r1 | r2 | ...

Rep(r, lo, hi) == [t |-> "rep", r |-> r, lo |-> lo, hi |-> hi]  \* r{lo,hi}, hi = -1: no limit

Star(r) == Rep(r, 0, -1)

Plus(r) == Rep(r, 1, -1)

Opt(r) == Rep(r, 0, 1)

Grp(k, r) == [t |-> "grp", k |-> k, r |-> r]        \* capture group number k

Ahead(r) == [t |-> "ahead", r |-> r]                \* (?=r)

Behind(r) == [t |-> "behind", r |-> r]              \* (?<=r)

Bol == [t |-> "bol"]                                \* ^

Eol == [t |-> "eol"]                                \* $

WordB == [t |-> "wordb"]                            \* \b

Lit(str) == Cat([k \in 1..Len(str) |-> Chr({str[k]})])

RegExp(ast, flags, ngroups) == [ast |-> ast, flags |-> flags, ngroups |-> ngroups]

Range(seq) == {seq[k] : k \in 1..Len(seq)}

Digits == {"0","1","2","3","4","5","6","7","8","9"}

WordChars == Range(LowerLetters) \cup Range(UpperLetters) \cup Digits \cup {"_"}

LineTerminators == {"\n", "\r"}

\* a character belongs to a class, under the i flag up to letter case
CharIn(c, cs, flags) ==
    \/ c \in cs
    \/ "i" \in flags /\ \E d \in cs : ToLowerChar(d) = ToLowerChar(c)

IsWordAt(s, i) == i >= 0 /\ i < Len(s) /\ s[i + 1] \in WordChars

RECURSIVE Flat(_)
Flat(ss) == IF ss = <<>> THEN <<>> ELSE Head(ss) \o Flat(Tail(ss))

RECURSIVE Matches(_, _, _, _, _)
RECURSIVE CatMatches(_, _, _, _, _, _)
RECURSIVE RepMatches(_, _, _, _, _, _)

Matches(r, s, i, g, flags) ==
    LET here == <<[e |-> i, g |-> g]>>
    IN  CASE r.t = "chr" ->
               IF i < Len(s) /\ CharIn(s[i + 1], r.cs, flags)
               THEN <<[e |-> i + 1, g |-> g]>> ELSE <<>>
          [] r.t = "bol" ->
               IF i = 0 \/ ("m" \in flags /\ s[i] \in LineTerminators)
               THEN here ELSE <<>>
          [] r.t = "eol" ->
               IF i = Len(s) \/ ("m" \in flags /\ s[i + 1] \in LineTerminators)
               THEN here ELSE <<>>
          [] r.t = "wordb" ->
               IF IsWordAt(s, i - 1) # IsWordAt(s, i) THEN here ELSE <<>>
          [] r.t = "alt" ->
               Flat([k \in 1..Len(r.rs) |-> Matches(r.rs[k], s, i, g, flags)])
          [] r.t = "cat" -> CatMatches(r.rs, 1, s, i, g, flags)
          [] r.t = "rep" -> RepMatches(r, 0, s, i, g, flags)
          [] r.t = "grp" ->
               LET ms == Matches(r.r, s, i, g, flags)
               IN  [n \in 1..Len(ms) |->
                      [e |-> ms[n].e, g |-> [ms[n].g EXCEPT ![r.k] = <<i, ms[n].e>>]]]
          [] r.t = "ahead" ->
               LET ms == Matches(r.r, s, i, g, flags)
               IN  IF ms = <<>> THEN <<>> ELSE <<[e |-> i, g |-> ms[1].g]>>
          [] r.t = "behind" ->
               \* the text before i must end a match of r; the patterns used
               \* here have one possible start, the nearest one is taken
               LET from == {j \in 0..i :
                              \E n \in 1..Len(Matches(r.r, s, j, g, flags)) :
                                 Matches(r.r, s, j, g, flags)[n].e = i}
               IN  IF from = {} THEN <<>>
                   ELSE LET j  == CHOOSE x \in from : \A y \in from : x >= y
                            ms == Matches(r.r, s, j, g, flags)
                            n  == CHOOSE x \in 1..Len(ms) :
                                     /\ ms[x].e = i
                                     /\ \A y \in 1..(x - 1) : ms[y].e # i
                        IN  <<[e |-> i, g |-> ms[n].g]>>

CatMatches(rs, k, s, i, g, flags) ==
    IF k > Len(rs) THEN <<[e |-> i, g |-> g]>>
    ELSE LET ms == Matches(rs[k], s, i, g, flags)
         IN  Flat([n \in 1..Len(ms) |-> CatMatches(rs, k + 1, s, ms[n].e, ms[n].g, flags)])

\* greedy repetition: another iteration is tried before stopping; once lo
\* iterations are done an iteration that consumes nothing is not taken
RepMatches(r, n, s, i, g, flags) ==
    LET ms   == IF r.hi >= 0 /\ n >= r.hi THEN <<>> ELSE Matches(r.r, s, i, g, flags)
        more == Flat([k \in 1..Len(ms) |->
                        IF ms[k].e > i \/ n < r.lo
                        THEN RepMatches(r, n + 1, s, ms[k].e, ms[k].g, flags)
                        ELSE <<>>])
        stop == IF n >= r.lo THEN <<[e |-> i, g |-> g]>> ELSE <<>>
    IN  more \o stop

NoCaptures(regex) == [k \in 1..regex.ngroups |-> <<>>]

\* the first way the pattern matches at the lowest offset >= i, if any:
\* <<>> or <<[index, e, g]>>
RECURSIVE FirstMatch(_, _, _)
FirstMatch(regex, s, i) ==
    IF i > Len(s) THEN <<>>
    ELSE LET ms == Matches(regex.ast, s, i, NoCaptures(regex), regex.flags)
         IN  IF ms # <<>>
             THEN <<[index |-> i, e |-> ms[1].e, g |-> ms[1].g]>>
             ELSE FirstMatch(regex, s, i + 1)

\* RegExp.prototype.exec(s) on a RegExp whose lastIndex is li.  The result is
\* [found, index, match, lastIndex]: match[k + 1] is the array element k of
\* the code, <<>> for undefined and <<str>> for a string; lastIndex is the
\* property's value after the call.  Without the g flag lastIndex is neither
\* read nor written.
Exec(regex, s, li) ==
    LET first == FirstMatch(regex, s, IF "g" \in regex.flags THEN li ELSE 0)
    IN  IF first = <<>>
        THEN [found |-> FALSE, index |-> -1, match |-> <<>>,
              lastIndex |-> IF "g" \in regex.flags THEN 0 ELSE li]
        ELSE LET m == first[1]
             IN  [found |-> TRUE,
                  index |-> m.index,
                  match |-> <<<<Slice(s, m.index, m.e)>>>> \o
                            [k \in 1..regex.ngroups |->
                               IF m.g[k] = <<>> THEN <<>>
                               ELSE <<Slice(s, m.g[k][1], m.g[k][2])>>],
                  lastIndex |-> IF "g" \in regex.flags THEN m.e ELSE li]

\* RegExp.prototype.test(s) on a RegExp without the g flag
Test(regex, s) == Exec(regex, s, 0).found

(***************************************************************************)
(* The global allowlist, as scripts/update-rules.ts:390-410 writes it into *)
(* the generated rule file.                                                *)
(***************************************************************************)
UpperOrUnderscore == Range(UpperLetters) \cup {"_"}

LowerOrUnderscore == Range(LowerLetters) \cup {"_"}

Blank == {" ", "\t"}

\* (?:[A-Z_]+|[a-z_]+)
VariableName == Alt(<<Plus(Chr(UpperOrUnderscore)), Plus(Chr(LowerOrUnderscore))>>)

Anchored(rs) == Cat(<<Bol>> \o rs \o <<Eol>>)

globalAllowlist == [
    regexes |-> <<
      \* /^(?:true|false|null)$/i
      [regex |-> RegExp(Anchored(<<Alt(<<Lit(<<"t","r","u","e">>),
                                         Lit(<<"f","a","l","s","e">>),
                                         Lit(<<"n","u","l","l">>)>>)>>), {"i"}, 0)],
      \* /^(?:a+|b+|...|z+|\*+|\.+)$/i
      [regex |-> RegExp(Anchored(<<Alt([k \in 1..28 |->
                          Plus(Chr({(LowerLetters \o <<"*", ".">>)[k]}))])>>), {"i"}, 0)],
      \* /^\$(?:\d+|{\d+})$/
      [regex |-> RegExp(Anchored(<<Chr({"$"}),
                          Alt(<<Plus(Chr(Digits)),
                                Cat(<<Chr({"{"}), Plus(Chr(Digits)), Chr({"}"})>>)>>)>>), {}, 0)],
      \* /^\$(?:[A-Z_]+|[a-z_]+)$/
      [regex |-> RegExp(Anchored(<<Chr({"$"}), VariableName>>), {}, 0)],
      \* /^\$\{(?:[A-Z_]+|[a-z_]+)\}$/
      [regex |-> RegExp(Anchored(<<Chr({"$"}), Chr({"{"}), VariableName, Chr({"}"})>>), {}, 0)],
      \* /^\{\{[ \t]*[\w ().|]+[ \t]*\}\}$/
      [regex |-> RegExp(Anchored(<<Chr({"{"}), Chr({"{"}), Star(Chr(Blank)),
                          Plus(Chr(WordChars \cup {" ", "(", ")", ".", "|"})),
                          Star(Chr(Blank)), Chr({"}"}), Chr({"}"})>>), {}, 0)],
      \* /^\$\{\{[ \t]*(?:(?:env|github|secrets|vars)(?:\.[A-Za-z]\w+)+[\w "'&.\/=|]*)[ \t]*\}\}$/
      [regex |-> RegExp(Anchored(<<Chr({"$"}), Chr({"{"}), Chr({"{"}), Star(Chr(Blank)),
                          Alt(<<Lit(<<"e","n","v">>), Lit(<<"g","i","t","h","u","b">>),
                                Lit(<<"s","e","c","r","e","t","s">>), Lit(<<"v","a","r","s">>)>>),
                          Plus(Cat(<<Chr({"."}),
                                     Chr(Range(UpperLetters) \cup Range(LowerLetters)),
                                     Plus(Chr(WordChars))>>)),
                          Star(Chr(WordChars \cup {" ", "\"", "'", "&", ".", "/", "=", "|"})),
                          Star(Chr(Blank)), Chr({"}"}), Chr({"}"})>>), {}, 0)],
      \* /^%(?:[A-Z_]+|[a-z_]+)%$/
      [regex |-> RegExp(Anchored(<<Chr({"%"}), VariableName, Chr({"%"})>>), {}, 0)],
      \* /^%[+\-# 0]?[bcdeEfFgGoOpqstTUvxX]$/
      [regex |-> RegExp(Anchored(<<Chr({"%"}), Opt(Chr({"+", "-", "#", " ", "0"})),
                          Chr({"b","c","d","e","E","f","F","g","G","o","O","p","q",
                               "s","t","T","U","v","x","X"})>>), {}, 0)],
      \* /^\{\d{0,2}\}$/
      [regex |-> RegExp(Anchored(<<Chr({"{"}), Rep(Chr(Digits), 0, 2), Chr({"}"})>>), {}, 0)],
      \* /^@(?:[A-Z_]+|[a-z_]+)@$/
      [regex |-> RegExp(Anchored(<<Chr({"@"}), VariableName, Chr({"@"})>>), {}, 0)],
      \* /^\/Users\/[a-z0-9]+\/[\w .\-\/]+$/i
      [regex |-> RegExp(Anchored(<<Lit(<<"/","U","s","e","r","s","/">>),
                          Plus(Chr(Range(LowerLetters) \cup Digits)), Chr({"/"}),
                          Plus(Chr(WordChars \cup {" ", ".", "-", "/"}))>>), {"i"}, 0)],
      \* /^\/(?:bin|etc|home|opt|tmp|usr|var)\/[\w .\/-]+$/
      [regex |-> RegExp(Anchored(<<Chr({"/"}),
                          Alt(<<Lit(<<"b","i","n">>), Lit(<<"e","t","c">>),
                                Lit(<<"h","o","m","e">>), Lit(<<"o","p","t">>),
                                Lit(<<"t","m","p">>), Lit(<<"u","s","r">>),
                                Lit(<<"v","a","r">>)>>),
                          Chr({"/"}),
                          Plus(Chr(WordChars \cup {" ", ".", "/", "-"}))>>), {}, 0)]
    >>,
    stopwords |-> <<
      <<"0","1","4","d","f","5","1","7","-","3","9","d","1","-","4","4","5","3","-",
        "b","7","b","3","-","9","9","3","0","c","5","6","3","6","2","7","c">>,
      <<"a","b","c","d","e","f","g","h","i","j","k","l","m",
        "n","o","p","q","r","s","t","u","v","w","x","y","z">>
    >> ]

\* a global allowlist whose stopwords reject by containment
isGlobalAllowlistedByContainment(secret) ==
    \/ \E k \in 1..Len(globalAllowlist.regexes) :
          Test(globalAllowlist.regexes[k].regex, secret)
    \/ \E k \in 1..Len(globalAllowlist.stopwords) :
          Includes(ToLowerCase(secret), ToLowerCase(globalAllowlist.stopwords[k]))

isGlobalAllowlisted(secret) ==
    \/ \E k \in 1..Len(globalAllowlist.regexes) :
          Test(globalAllowlist.regexes[k].regex, secret)
    \/ \E k \in 1..Len(globalAllowlist.stopwords) :
          ToLowerCase(secret) = ToLowerCase(globalAllowlist.stopwords[k])

(***************************************************************************)
(* A Rule is [id, label, regex, keywords, entropy, secretGroup, allowlist];*)
(* an optional field is <<>> when absent and <<value>> when present.  An   *)
(* allowlist is [regexes, stopwords], each regex entry [regex, target]     *)
(* with target "line", "match" or "" (absent).                             *)
(***************************************************************************)
\* index.ts:125-128: the loop over rule.allowlist.regexes from entry k on,
\* the lastIndex values of the entries being cursors.  test() is exec() under
\* the regex's own flags: with the g flag it starts at lastIndex and leaves
\* the end of the match (0 after a failure) there.  The result is whether an
\* entry matched, the loop stopping there, and the cursors afterwards.
RECURSIVE TestAllowlistRegexes(_, _, _, _, _, _)
TestAllowlistRegexes(regexes, k, cursors, secret, fullMatch, line) ==
    IF k > Len(regexes) THEN [found |-> FALSE, cursors |-> cursors]
    ELSE LET target  == regexes[k].target
             testStr == IF target = "line" THEN line
                        ELSE IF target = "match" THEN fullMatch
                        ELSE secret
         IN  CHOOSE after \in
                {IF m.found
                 THEN [found |-> TRUE, cursors |-> [cursors EXCEPT ![k] = m.lastIndex]]
                 ELSE TestAllowlistRegexes(regexes, k + 1,
                                           [cursors EXCEPT ![k] = m.lastIndex],
                                           secret, fullMatch, line) :
                    m \in {Exec(regexes[k].regex, testStr, cursors[k])}} : TRUE

\* index.ts:120-140, run with the allowlist regexes' cursors as they are
isRuleAllowlisted(rule, secret, fullMatch, line) ==
    IF rule.allowlist = <<>> THEN FALSE
    ELSE LET allowlist == rule.allowlist[1]
         IN  \/ TestAllowlistRegexes(allowlist.regexes, 1, allowlistLastIndex[rule.id],
                                     secret, fullMatch, line).found
             \/ \E k \in 1..Len(allowlist.stopwords) :
                   Includes(ToLowerCase(secret), ToLowerCase(allowlist.stopwords[k]))

\* the cursors of the rule's allowlist regexes after that call
AllowlistCursorsAfter(rule, secret, fullMatch, line) ==
    IF rule.allowlist = <<>> THEN allowlistLastIndex[rule.id]
    ELSE TestAllowlistRegexes(rule.allowlist[1].regexes, 1, allowlistLastIndex[rule.id],
                              secret, fullMatch, line).cursors

getLineForIndex(str, index) ==
    LET lineStart == LastIndexOf(str, <<"\n">>, index - 1) + 1
        found     == IndexOf(str, <<"\n">>, index)
        lineEnd   == IF found = -1 THEN Len(str) ELSE found
    IN  Slice(str, lineStart, lineEnd)

\* an extraction that takes the first group that took part, whatever group
\* the rule declares
extractSecretFirstGroup(match, rule) ==
    LET others == {i \in 1..(Len(match) - 1) : match[i + 1] # <<>>}
    IN  IF others # {}
        THEN match[(CHOOSE i \in others : \A j \in others : i <= j) + 1][1]
        ELSE match[1][1]

\* match is the array exec returned: match[k + 1] is element k of the code
extractSecret(match, rule) ==
    LET groupIndex == IF rule.secretGroup = <<>> THEN 1 ELSE rule.secretGroup[1]
        others     == {i \in 1..(Len(match) - 1) : match[i + 1] # <<>>}
    IN  IF groupIndex < Len(match) /\ match[groupIndex + 1] # <<>>
        THEN match[groupIndex + 1][1]
        ELSE IF others # {}
        THEN match[(CHOOSE i \in others : \A j \in others : i <= j) + 1][1]
        ELSE match[1][1]

\* index.ts:183, the ids spelled as the character sequences rule ids are
GENERIC_RULE_IDS ==
    {<<"g","e","n","e","r","i","c","-","s","k","-","s","e","c","r","e","t">>,
     <<"b","e","a","r","e","r","-","t","o","k","e","n">>,
     <<"s","a","n","i","t","y","-","b","a","r","e">>}

(***************************************************************************)
(* The inputs of the model: the strings over InputAlphabet of at most      *)
(* MaxLen characters, and the corpora of at most MaxRules rules of         *)
(* RuleCatalogue, kept in catalogue order.                                 *)
(***************************************************************************)
InputAlphabet == {"1", "2", "a"}

Inputs == UNION {[1..n -> InputAlphabet] : n \in 0..MaxLen}

Rule(id, label, regex, keywords, threshold) ==
    [id |-> id, label |-> label, regex |-> regex, keywords |-> keywords,
     entropy |-> threshold, secretGroup |-> <<>>, allowlist |-> <<>>]

RuleCatalogue == <<
    \* /12/ : the whole match is the secret; two keywords
    Rule(<<"p","a","i","r">>, "Pair",
         RegExp(Lit(<<"1","2">>), {}, 0), <<<<"1">>, <<"2">>>>, <<>>),
    \* /[12]a*/ : matches of different lengths, no keyword
    Rule(<<"t","o","k">>, "Tok",
         RegExp(Cat(<<Chr({"1","2"}), Star(Chr({"a"}))>>), {}, 0), <<>>, <<>>),
    \* /a([12]+)/i : the secret is a capture group after its context
    Rule(<<"c","t","x">>, "Ctx",
         RegExp(Cat(<<Chr({"a"}), Grp(1, Plus(Chr({"1","2"})))>>), {"i"}, 1),
         <<<<"A">>>>, <<>>),
    \* /(?<=(1))2/ : the capture group lies before the match
    Rule(<<"b","e","h","i","n","d">>, "Behind",
         RegExp(Cat(<<Behind(Grp(1, Chr({"1"}))), Chr({"2"})>>), {}, 1),
         <<<<"1","2">>>>, <<>>),
    \* /a*/ : matches the empty string
    Rule(<<"e","m","p","t","y">>, "Empty",
         RegExp(Star(Chr({"a"})), {}, 0), <<<<"a","1">>>>, <<>>),
    \* /(?=(1[12a]))/ with entropy 1.0 : an empty match with a captured secret
    Rule(<<"a","h","e","a","d">>, "Ahead",
         RegExp(Ahead(Grp(1, Cat(<<Chr({"1"}), Chr({"1","2","a"})>>))), {}, 1),
         <<<<"1">>>>, <<1000000>>)
>>

\* Rules over strings that start with a known prefix.  The quantifier
\* {40,} of generic-sk-secret and its threshold 4.5 are scaled down to the
\* lengths of the model's inputs.
PrefixCatalogue == <<
    \* /\b(sk-[A-Za-z0-9_-]*)/ with entropy 1.0
    Rule(<<"g","e","n","e","r","i","c","-","s","k","-","s","e","c","r","e","t">>,
         "API Secret Key (sk-)",
         RegExp(Cat(<<WordB, Grp(1, Cat(<<Lit(<<"s","k","-">>),
                                          Star(Chr(WordChars \cup {"-"}))>>))>>), {}, 1),
         <<<<"s","k","-">>>>, <<1000000>>),
    \* /sk-[\w-]*/ : a provider rule without entropy threshold
    Rule(<<"s","k","-","k","e","y">>, "Sk Key",
         RegExp(Cat(<<Lit(<<"s","k","-">>), Star(Chr(WordChars \cup {"-"}))>>), {}, 0),
         <<<<"s","k","-">>>>, <<>>)
>>

\* a Rule with the optional allowlist field set
WithAllowlist(rule, regexes, stopwords) ==
    [rule EXCEPT !.allowlist = <<[regexes |-> regexes, stopwords |-> stopwords]>>]

\* Rules with an allowlist: RegExp objects of any flags with the text they
\* are tested against, and stopwords.
AllowlistCatalogue == <<
    \* /2[12]*/, allowlisted when /1/g matches the secret
    WithAllowlist(Rule(<<"a","l","l","o","w">>, "Allow",
                       RegExp(Cat(<<Chr({"2"}), Star(Chr({"1","2"}))>>), {}, 0),
                       <<<<"2">>>>, <<>>),
                  <<[regex |-> RegExp(Chr({"1"}), {"g"}, 0), target |-> "secret"]>>,
                  <<>>),
    \* /1[12]*/, allowlisted when /^a/ matches the line or the secret holds "11"
    WithAllowlist(Rule(<<"s","t","o","p">>, "Stop",
                       RegExp(Cat(<<Chr({"1"}), Star(Chr({"1","2"}))>>), {}, 0),
                       <<<<"1">>>>, <<>>),
                  <<[regex |-> RegExp(Cat(<<Bol, Chr({"a"})>>), {}, 0), target |-> "line"]>>,
                  <<<<"1","1">>>>)
>>

\* A rule whose capture group follows context that may hold the same text.
ContextCatalogue == <<
    \* /[12]a([12])/
    Rule(<<"a","f","t","e","r">>, "After",
         RegExp(Cat(<<Chr({"1","2"}), Chr({"a"}), Grp(1, Chr({"1","2"}))>>), {}, 1),
         <<<<"a">>>>, <<>>)
>>

\* Two rules that match the same text, the one with a keyword listed first.
OrderCatalogue == <<
    \* /1+/ with keyword "1"
    Rule(<<"k","e","y","e","d">>, "Keyed",
         RegExp(Plus(Chr({"1"})), {}, 0), <<<<"1">>>>, <<>>),
    \* /1+2*/ without keyword
    Rule(<<"b","r","o","a","d">>, "Broad",
         RegExp(Cat(<<Plus(Chr({"1"})), Star(Chr({"2"}))>>), {}, 0), <<>>, <<>>)
>>

\* "abcdefghijklmnopqrstuvwxyz", the second global stopword, and its
\* upper-case spelling
Alphabet == LowerLetters

UpperAlphabet == UpperLetters

\* Rules over letters and digits, with and without stopwords of their own.
StopwordCatalogue == <<
    \* /[a-z0-9]+/i
    Rule(<<"p","l","a","i","n">>, "Plain",
         RegExp(Plus(Chr(Range(LowerLetters) \cup Digits)), {"i"}, 0), <<>>, <<>>),
    \* /[a-z0-9]+/i with the stopword 'Bc'
    WithAllowlist(Rule(<<"w","o","r","d","s">>, "Words",
                       RegExp(Plus(Chr(Range(LowerLetters) \cup Digits)), {"i"}, 0),
                       <<>>, <<>>),
                  <<>>, <<<<"B","c">>>>)
>>

\* a Rule with the optional secretGroup field set
WithSecretGroup(rule, group) == [rule EXCEPT !.secretGroup = <<group>>]

\* Rules whose capture groups may stay out of a match.
GroupCatalogue == <<
    \* /(1)|(2)a/ : one of two groups takes part
    Rule(<<"e","i","t","h","e","r">>, "Either",
         RegExp(Alt(<<Grp(1, Chr({"1"})),
                      Cat(<<Grp(2, Chr({"2"})), Chr({"a"})>>)>>), {}, 2),
         <<>>, <<>>),
    \* /(1)(2)?/ with secretGroup 2
    WithSecretGroup(Rule(<<"s","e","c","o","n","d">>, "Second",
                         RegExp(Cat(<<Grp(1, Chr({"1"})),
                                      Opt(Grp(2, Chr({"2"})))>>), {}, 2),
                         <<<<"1">>>>, <<>>), 2),
    \* /2(1)?/ : the only group may stay out
    Rule(<<"m","a","y","b","e">>, "Maybe",
         RegExp(Cat(<<Chr({"2"}), Opt(Grp(1, Chr({"1"})))>>), {}, 1),
         <<<<"2">>>>, <<>>),
    \* /2(a)/ with secretGroup 0
    WithSecretGroup(Rule(<<"w","h","o","l","e">>, "Whole",
                         RegExp(Cat(<<Chr({"2"}), Grp(1, Chr({"a"}))>>), {}, 1),
                         <<<<"2","a">>>>, <<>>), 0),
    \* /2(1*)/ : the group takes part with the empty string
    Rule(<<"b","l","a","n","k">>, "Blank",
         RegExp(Cat(<<Chr({"2"}), Grp(1, Star(Chr({"1"})))>>), {}, 1),
         <<<<"2">>>>, <<>>)
>>

AllRules ==
    RuleCatalogue \o PrefixCatalogue \o AllowlistCatalogue \o ContextCatalogue
                  \o OrderCatalogue \o StopwordCatalogue \o GroupCatalogue

TheRule(ref) == AllRules[ref]

\* the rule list made of the catalogue's rules at the positions in sel, in
\* catalogue order
RECURSIVE Corpus(_, _)
Corpus(sel, n) ==
    IF n = 0 THEN <<>>
    ELSE IF n \in sel THEN Append(Corpus(sel, n - 1), n)
    ELSE Corpus(sel, n - 1)

\* the rules of RuleCatalogue whose match can be of length zero; they are run
\* in corpora of their own
ZeroLengthRules ==
    {k \in 1..Len(RuleCatalogue) :
        RuleCatalogue[k].id \in {<<"e","m","p","t","y">>, <<"a","h","e","a","d">>}}

Selections ==
    {sel \in SUBSET (1..Len(RuleCatalogue)) :
        /\ Cardinality(sel) >= 1 /\ Cardinality(sel) <= MaxRules
        /\ sel \subseteq ZeroLengthRules \/ sel \cap ZeroLengthRules = {}}

\* the inputs that are a known prefix followed by at most MaxSuffix
\* characters, and the corpora of PrefixCatalogue rules run on them
SuffixAlphabet == {"x", "7", "q"}

ModelPrefixes == {<<"s","k","-">>, <<"s","k","-","p","r","o","j","-">>}

PrefixedInputs ==
    {prefix \o suffix :
        prefix \in ModelPrefixes,
        suffix \in UNION {[1..n -> SuffixAlphabet] : n \in 0..MaxSuffix}}

\* the rule lists of at most MaxRules rules out of the catalogue that follows
\* the first `before` rules of AllRules
SelectionsOf(before, catalogue) ==
    {sel \in SUBSET ((before + 1)..(before + Len(catalogue))) :
        Cardinality(sel) >= 1 /\ Cardinality(sel) <= MaxRules}

PrefixSelections == SelectionsOf(Len(RuleCatalogue), PrefixCatalogue)

\* the inputs that the rules with an allowlist or with context are run on
ShortInputs == {s \in Inputs : Len(s) < MaxLen}

AllowlistSelections ==
    SelectionsOf(Len(RuleCatalogue \o PrefixCatalogue), AllowlistCatalogue)

ContextSelections ==
    SelectionsOf(Len(RuleCatalogue \o PrefixCatalogue \o AllowlistCatalogue),
                 ContextCatalogue)

OrderSelections ==
    SelectionsOf(Len(RuleCatalogue \o PrefixCatalogue \o AllowlistCatalogue
                                   \o ContextCatalogue), OrderCatalogue)

\* inputs that are, hold or come near a stopword
StopwordInputs ==
    {Alphabet, UpperAlphabet, Alphabet \o <<"1">>, <<"1">> \o UpperAlphabet,
     <<"b","c">>, <<"B","C">>, <<"a","b","C","d">>, <<"1","B","c">>,
     <<"b","1","c">>, <<"b","d">>, <<"a"," ","b","c">>}

StopwordSelections ==
    SelectionsOf(Len(RuleCatalogue \o PrefixCatalogue \o AllowlistCatalogue
                                   \o ContextCatalogue \o OrderCatalogue),
                 StopwordCatalogue)

GroupSelections ==
    SelectionsOf(Len(RuleCatalogue \o PrefixCatalogue \o AllowlistCatalogue
                                   \o ContextCatalogue \o OrderCatalogue
                                   \o StopwordCatalogue),
                 GroupCatalogue)

\* the families of (input, rule list) the model starts from
Families ==
    {[inputs |-> Inputs, selections |-> Selections],
     [inputs |-> PrefixedInputs, selections |-> PrefixSelections],
     [inputs |-> ShortInputs, selections |-> AllowlistSelections],
     [inputs |-> ShortInputs, selections |-> ContextSelections],
     [inputs |-> ShortInputs, selections |-> OrderSelections],
     [inputs |-> StopwordInputs, selections |-> StopwordSelections],
     [inputs |-> ShortInputs, selections |-> GroupSelections]}

\* index.ts:14 and rules.ts: every allowlist RegExp is constructed with
\* lastIndex 0
FreshCursors(list) ==
    [id \in {TheRule(list[k]).id : k \in 1..Len(list)} |->
        LET rule == CHOOSE r \in {TheRule(list[k]) : k \in 1..Len(list)} : r.id = id
        IN  IF rule.allowlist = <<>> THEN <<>>
            ELSE [k \in 1..Len(rule.allowlist[1].regexes) |-> 0]]

(***************************************************************************)
(* The keyword index, index.ts:38-55.  The rule list, the index and the    *)
(* candidate set hold references to Rule objects; a reference is the       *)
(* position of the rule in RuleCatalogue below and TheRule gives the       *)
(* object.  The index is the sequence of the Map's entries in insertion    *)
(* order.                                                                  *)
(***************************************************************************)
\* keywordIndex after `list.push(rule)` for keyword kw (lowercased) of rule r
AddKeyword(index, kw, r) ==
    LET lower == ToLowerCase(kw)
    IN  IF \E k \in 1..Len(index) : index[k].keyword = lower
        THEN [k \in 1..Len(index) |->
                IF index[k].keyword = lower
                THEN [index[k] EXCEPT !.rules = Append(@, r)]
                ELSE index[k]]
        ELSE Append(index, [keyword |-> lower, rules |-> <<r>>])

RECURSIVE AddKeywords(_, _, _, _)
AddKeywords(index, kws, n, r) ==
    IF n = 0 THEN index
    ELSE AddKeyword(AddKeywords(index, kws, n - 1, r), kws[n], r)

\* the Map after the first n rules of rs have been indexed
RECURSIVE BuildKeywordIndex(_, _)
BuildKeywordIndex(rs, n) ==
    IF n = 0 THEN <<>>
    ELSE AddKeywords(BuildKeywordIndex(rs, n - 1), TheRule(rs[n]).keywords,
                     Len(TheRule(rs[n]).keywords), rs[n])

RECURSIVE BuildRulesWithoutKeywords(_, _)
BuildRulesWithoutKeywords(rs, n) ==
    IF n = 0 THEN <<>>
    ELSE IF Len(TheRule(rs[n]).keywords) = 0
         THEN Append(BuildRulesWithoutKeywords(rs, n - 1), rs[n])
         ELSE BuildRulesWithoutKeywords(rs, n - 1)

(***************************************************************************)
(* Core scanning, index.ts:144-282.                                        *)
(***************************************************************************)
\* adding to a list instead of a Set: an element is held as often as added
RECURSIVE AddAllRepeated(_, _, _)
AddAllRepeated(set, list, n) ==
    IF n = 0 THEN set ELSE Append(AddAllRepeated(set, list, n - 1), list[n])

\* Set.prototype.add for each element of a list: a Set keeps insertion
\* order and holds an element once
RECURSIVE AddAll(_, _, _)
AddAll(set, list, n) ==
    IF n = 0 THEN set
    ELSE LET before == AddAll(set, list, n - 1)
         IN  IF list[n] \in Range(before) THEN before ELSE Append(before, list[n])

RECURSIVE AddKeywordRules(_, _, _)
AddKeywordRules(set, inputLower, n) ==
    IF n = 0 THEN set
    ELSE LET before == AddKeywordRules(set, inputLower, n - 1)
             entry  == keywordIndex[n]
         IN  IF Includes(inputLower, entry.keyword)
             THEN AddAll(before, entry.rules, Len(entry.rules))
             ELSE before

getCandidateRules(inputLower) ==
    AddKeywordRules(AddAll(<<>>, rulesWithoutKeywords, Len(rulesWithoutKeywords)),
                    inputLower, Len(keywordIndex))

\* index.ts:211: new RegExp(rule.regex.source, rule.regex.flags.replace('g', '') + 'g')
LocalRegex(rule) ==
    RegExp(rule.regex.ast, (rule.regex.flags \ {"g"}) \cup {"g"}, rule.regex.ngroups)

\* index.ts:219-220
SecretStart(secret, m) ==
    LET secretStart == IndexOf(input, secret, m.index)
    IN  IF secretStart >= 0 THEN secretStart ELSE m.index

\* a confidence derived from the rule having an entropy threshold
ConfidenceByThreshold(rule) == IF rule.entropy # <<>> THEN "medium" ELSE "high"

\* index.ts:239
Confidence(rule) == IF rule.id \in GENERIC_RULE_IDS THEN "medium" ELSE "high"

\* the Secret pushed at index.ts:241-248
MakeSecret(rule, secret, m) ==
    [rule       |-> rule.id,
     label      |-> rule.label,
     text       |-> secret,
     confidence |-> Confidence(rule),
     start      |-> SecretStart(secret, m),
     end        |-> SecretStart(secret, m) + Len(secret)]

\* a test that lets the empty string through
IsEmptyNever(secret) == FALSE

\* index.ts:216: !secret, true of the empty string alone
IsEmpty(secret) == secret = <<>>

\* an entropy check that also rejects a secret whose entropy is the threshold
ReachesRuleAllowlistAboveThreshold(rule, secret) ==
    /\ ~IsEmpty(secret)
    /\ rule.entropy = <<>> \/ shannonEntropy(secret) > rule.entropy[1]
    /\ ~isPlaceholder(secret)
    /\ ~isGlobalAllowlisted(secret)

\* index.ts:216-232: the match gets as far as the rule allowlist check
ReachesRuleAllowlist(rule, secret) ==
    /\ ~IsEmpty(secret)
    /\ rule.entropy = <<>> \/ ~(shannonEntropy(secret) < rule.entropy[1])
    /\ ~isPlaceholder(secret)
    /\ ~isGlobalAllowlisted(secret)

\* a scan that pools every match with a secret and leaves the checks for later
PassesFiltersUnchecked(rule, secret, m) ==
    secret # <<>>

\* index.ts:223-237: none of the four checks rejects the match
PassesFilters(rule, secret, m) ==
    /\ ReachesRuleAllowlist(rule, secret)
    /\ ~isRuleAllowlisted(rule, secret, m.match[1][1], getLineForIndex(input, m.index))

\* a comparator that puts the shortest span first
compareMatchesShortestFirst(a, b) ==
    LET lenDiff == (a.end - a.start) - (b.end - b.start)
    IN  IF lenDiff # 0 THEN lenDiff ELSE a.start - b.start

\* a comparator that orders by start alone, so that the first match wins
compareMatchesByStart(a, b) == a.start - b.start

\* a comparator that orders by length alone, without the tie-break on start
compareMatchesByLength(a, b) == (b.end - b.start) - (a.end - a.start)

\* the comparator of index.ts:258-262
compareMatches(a, b) ==
    LET lenDiff == (b.end - b.start) - (a.end - a.start)
    IN  IF lenDiff # 0 THEN lenDiff ELSE a.start - b.start

\* the comparator of index.ts:279
comparePosition(a, b) == a.start - b.start

\* Array.prototype.sort(cmp), a stable sort: an element goes after those
\* that compare smaller and after the equal ones that came before it.  cmp
\* is the comparator as a function on pairs of elements of seq.
Sort(seq, cmp) ==
    LET rank(k) == 1 + Cardinality({j \in 1..Len(seq) :
                          \/ cmp[seq[j], seq[k]] < 0
                          \/ cmp[seq[j], seq[k]] = 0 /\ j < k})
    IN  [p \in 1..Len(seq) |-> seq[CHOOSE k \in 1..Len(seq) : rank(k) = p]]

\* a check that only looks whether the candidate starts inside an accepted range
OverlapsStartOnly(candidate, matchedRanges) ==
    \E k \in 1..Len(matchedRanges) :
       matchedRanges[k].start <= candidate.start /\ candidate.start < matchedRanges[k].end

\* a check that also counts a candidate that touches an accepted range
OverlapsOrTouches(candidate, matchedRanges) ==
    \E k \in 1..Len(matchedRanges) :
       candidate.start <= matchedRanges[k].end /\ candidate.end >= matchedRanges[k].start

\* index.ts:269-271
Overlaps(candidate, matchedRanges) ==
    \E k \in 1..Len(matchedRanges) :
       candidate.start < matchedRanges[k].end /\ candidate.end > matchedRanges[k].start

\* index.ts:264-276: `secrets` after the first n candidates of the sorted pool
RECURSIVE Accepted(_, _)
Accepted(sorted, n) ==
    IF n = 0 THEN <<>>
    ELSE LET before == Accepted(sorted, n - 1)
         IN  IF Overlaps(sorted[n], before) THEN before ELSE Append(before, sorted[n])

\* phase 2 of scan, index.ts:255-281
ResolveOverlaps(pool) ==
    LET sorted == Sort(pool, [a, b \in Range(pool) |-> compareMatches(a, b)])
    IN  Sort(Accepted(sorted, Len(sorted)),
             [a, b \in Range(pool) |-> comparePosition(a, b)])

(***************************************************************************)
(* redact, index.ts:293-309, and the replacers its callers pass.           *)
(***************************************************************************)
RECURSIVE NumberToString(_)
NumberToString(n) ==
    LET digit == <<"0","1","2","3","4","5","6","7","8","9">>[(n % 10) + 1]
    IN  IF n < 10 THEN <<digit>> ELSE NumberToString(n \div 10) \o <<digit>>

\* `${x}` of a template literal for a number argument that may be undefined
ArgumentToString(x) ==
    IF x = <<>> THEN <<"u","n","d","e","f","i","n","e","d">> ELSE NumberToString(x[1])

SecretLabel(n) == <<"[","s","e","c","r","e","t",":">> \o n \o <<"]">>

\* The replacer functions of the README and the tests.
Replacers == {"redacted", "stars", "rule", "counter", "index"}

\* What a replacer returns when called with the argument list args
\* (args[1] is the Secret) while its counter is id.
ReplacerReturn(fn, args, id) ==
    CASE fn = "redacted" -> <<"[","R","E","D","A","C","T","E","D","]">>
      [] fn = "stars"    -> <<"*","*","*">>
      [] fn = "rule"     -> <<"[">> \o args[1].rule \o <<"]">>
      [] fn = "counter"  -> SecretLabel(NumberToString(id))
      [] fn = "index"    -> SecretLabel(ArgumentToString(
                                IF Len(args) >= 2 THEN <<args[2]>> ELSE <<>>))

\* The replacer's counter after the call.
ReplacerCounter(fn, id) == IF fn = "counter" THEN id + 1 ELSE id

\* index.ts:304: the argument list of the call `replacer(secret)` for secrets[i]
ReplacerArguments(secret, i) == <<secret>>

\* a splice that resumes as many characters after start as the replacement is long
SpliceByReplacementLength(str, secret, replacement) ==
    Slice(str, 0, secret.start) \o replacement
        \o SliceFrom(str, secret.start + Len(replacement))

\* index.ts:305
Splice(str, secret, replacement) ==
    Slice(str, 0, secret.start) \o replacement \o SliceFrom(str, secret.end)

(***************************************************************************)
(* The state machine.  pc is "scan" at the entry of scan(input), "match"   *)
(* inside the loops of phase 1, "returned" once scan has returned secrets, *)
(* "redact" inside the loop of redact (whose first statement was that scan *)
(* call) and "done" once redact has returned result.                       *)
(***************************************************************************)
Init ==
    /\ \E family \in Families :
          /\ input \in family.inputs
          /\ \E sel \in family.selections : rules = Corpus(sel, Len(AllRules))
    /\ keywordIndex = BuildKeywordIndex(rules, Len(rules))
    /\ rulesWithoutKeywords = BuildRulesWithoutKeywords(rules, Len(rules))
    /\ pc = "scan"
    /\ candidates = <<>>
    /\ ci = 0
    /\ lastIndex = 0
    /\ execs = 0
    /\ allMatches = <<>>
    /\ secrets = <<>>
    /\ replacer = ""
    /\ nextId = 0
    /\ result = <<>>
    /\ ri = 0
    /\ calls = <<>>
    /\ allowlistLastIndex = FreshCursors(rules)
    /\ returns = <<>>
    /\ detectors = <<>>
    /\ gi = 0
    /\ ruleIds = <<>>
    /\ skippedIds = <<>>
    /\ entropyArg = <<>>
    /\ entropy = <<>>

shared == <<input, rules, keywordIndex, rulesWithoutKeywords>>

\* the variables of calls to the exported utility
generatorVars == <<detectors, gi, ruleIds, skippedIds>>

utilityVars == <<entropyArg, entropy, generatorVars>>

redactVars == <<replacer, nextId, result, ri, calls>>

\* index.ts:200-207
ScanEnter ==
    /\ pc = "scan"
    /\ IF input = <<>>
       THEN /\ pc' = "returned"
            /\ returns' = Append(returns, <<>>)
            /\ UNCHANGED <<candidates, ci>>
       ELSE /\ pc' = "match"
            /\ candidates' = getCandidateRules(ToLowerCase(input))
            /\ ci' = 1
            /\ UNCHANGED returns
    /\ UNCHANGED <<shared, utilityVars, allowlistLastIndex, lastIndex, execs, allMatches,
                   secrets, redactVars>>

\* regex.exec(input) of index.ts:214 for the rule the for-of loop is at
CurrentRule == TheRule(candidates[ci])

CurrentExec == Exec(LocalRegex(CurrentRule), input, lastIndex)

\* the most exec calls on one rule that the model follows
ExecLimit == Len(input) + 2

\* index.ts:214-252: one iteration of the while loop, exec having matched
MatchIteration ==
    /\ pc = "match"
    /\ ci <= Len(candidates)
    /\ execs < ExecLimit
    /\ \E m \in {CurrentExec} :
        m.found /\ \E secret \in {extractSecret(m.match, CurrentRule)} :
           /\ IF IsEmpty(secret) \/ ~PassesFilters(CurrentRule, secret, m)
              THEN /\ lastIndex' = m.lastIndex
                   /\ UNCHANGED allMatches
              ELSE /\ allMatches' = Append(allMatches, MakeSecret(CurrentRule, secret, m))
                   /\ lastIndex' = IF Len(m.match[1][1]) = 0
                                   THEN m.lastIndex + 1 ELSE m.lastIndex
           /\ allowlistLastIndex' =
                  IF CurrentRule.allowlist # <<>> /\ ReachesRuleAllowlist(CurrentRule, secret)
                  THEN [allowlistLastIndex EXCEPT ![CurrentRule.id] =
                           AllowlistCursorsAfter(CurrentRule, secret, m.match[1][1],
                                                 getLineForIndex(input, m.index))]
                  ELSE allowlistLastIndex
    /\ execs' = execs + 1
    /\ UNCHANGED <<shared, utilityVars, returns, pc, candidates, ci, secrets, redactVars>>

\* index.ts:209-214: exec returned null, the for-of loop moves to the next
\* rule and a fresh RegExp copy
NextRule ==
    /\ pc = "match"
    /\ ci <= Len(candidates)
    /\ ~CurrentExec.found
    /\ ci' = ci + 1
    /\ lastIndex' = 0
    /\ execs' = 0
    /\ UNCHANGED <<shared, utilityVars, allowlistLastIndex, returns, pc, candidates,
                   allMatches, secrets, redactVars>>

\* index.ts:255-281
ScanReturn ==
    /\ pc = "match"
    /\ ci > Len(candidates)
    /\ secrets' = ResolveOverlaps(allMatches)
    /\ returns' = Append(returns, secrets')
    /\ pc' = "returned"
    /\ UNCHANGED <<shared, utilityVars, allowlistLastIndex, candidates, ci, lastIndex, execs,
                   allMatches, redactVars>>

\* a redact whose early return hands back the empty string
RedactEnterReturnsEmpty ==
    /\ pc = "returned"
    /\ \E fn \in Replacers : replacer' = fn
    /\ nextId' = 0
    /\ calls' = <<>>
    /\ IF Len(secrets) = 0
       THEN pc' = "done" /\ result' = <<>> /\ UNCHANGED ri
       ELSE pc' = "redact" /\ result' = input /\ ri' = Len(secrets) - 1
    /\ UNCHANGED <<shared, utilityVars, allowlistLastIndex, returns, candidates, ci, lastIndex,
                   execs, allMatches, secrets>>

\* index.ts:293-301: redact(input, fn), its scan(input) call having returned
RedactEnter ==
    /\ pc = "returned"
    /\ \E fn \in Replacers : replacer' = fn
    /\ nextId' = 0
    /\ calls' = <<>>
    /\ result' = input
    /\ IF Len(secrets) = 0
       THEN pc' = "done" /\ UNCHANGED ri
       ELSE pc' = "redact" /\ ri' = Len(secrets) - 1
    /\ UNCHANGED <<shared, utilityVars, allowlistLastIndex, returns, candidates, ci, lastIndex,
                   execs, allMatches, secrets>>

\* a loop that walks the list from its first element
CurrentSecretLeftToRight == secrets[Len(secrets) - ri]

\* index.ts:302-303: the Secret the for loop is at, `secrets[i]`
CurrentSecret == secrets[ri + 1]

\* index.ts:302-306: one iteration of the for loop
RedactStep ==
    /\ pc = "redact"
    /\ ri >= 0
    /\ LET secret      == CurrentSecret
           args        == ReplacerArguments(secret, ri)
           replacement == ReplacerReturn(replacer, args, nextId)
       IN  /\ calls' = Append(calls, [args |-> args, returned |-> replacement,
                                      before |-> result])
           /\ result' = Splice(result, secret, replacement)
    /\ nextId' = ReplacerCounter(replacer, nextId)
    /\ ri' = ri - 1
    /\ UNCHANGED <<shared, utilityVars, allowlistLastIndex, returns, pc, candidates, ci,
                   lastIndex, execs, allMatches, secrets, replacer>>

\* index.ts:308
RedactReturn ==
    /\ pc = "redact"
    /\ ri < 0
    /\ pc' = "done"
    /\ UNCHANGED <<shared, utilityVars, allowlistLastIndex, returns, candidates, ci, lastIndex,
                   execs, allMatches, secrets, redactVars>>

\* A later scan(input) call of the same process: after a scan or a redact
\* has returned, or from inside a replacer that redact is calling (the
\* calls are synchronous, so the scan of that redact has returned by then
\* and the steps of two calls never alternate; the nested call is followed,
\* the rest of the outer redact is not).  Every call starts from fresh
\* locals (index.ts:203-211) and from the shared values as the calls before
\* left them.  A call that finds the shared values as constructed is a
\* first call, which Init starts; the later calls followed are those that
\* find them changed.
CallAgain ==
    /\ pc \in {"returned", "redact", "done"}
    /\ Len(returns) < MaxCalls
    /\ allowlistLastIndex # FreshCursors(rules)
    /\ pc' = "scan"
    /\ candidates' = <<>>
    /\ ci' = 0
    /\ lastIndex' = 0
    /\ execs' = 0
    /\ allMatches' = <<>>
    /\ secrets' = <<>>
    /\ replacer' = ""
    /\ nextId' = 0
    /\ result' = <<>>
    /\ ri' = 0
    /\ calls' = <<>>
    /\ UNCHANGED <<shared, utilityVars, allowlistLastIndex, returns>>

Next ==
    \/ ScanEnter
    \/ MatchIteration
    \/ NextRule
    \/ ScanReturn
    \/ RedactEnter
    \/ RedactStep
    \/ RedactReturn
    \/ CallAgain

Spec == Init /\ [][Next]_vars

(***************************************************************************)
(* shannonEntropy called on its own (index.ts:312 exports it): the         *)
(* argument is any string of at most MaxEntropyLen code units over         *)
(* EntropyAlphabet, surrogate halves included.                             *)
(***************************************************************************)
EntropyAlphabet == {"a", "b", "c", "d"} \cup HighSurrogates \cup LowSurrogates

EntropyInputs == UNION {[1..n -> EntropyAlphabet] : n \in 0..MaxEntropyLen}

scanVars == <<input, rules, keywordIndex, rulesWithoutKeywords, pc, candidates, ci,
              lastIndex, execs, allMatches, secrets, replacer, nextId, result, ri,
              calls, allowlistLastIndex, returns>>

\* no scan or redact call is running
NoCall ==
    /\ input = <<>>
    /\ rules = <<>>
    /\ keywordIndex = <<>>
    /\ rulesWithoutKeywords = <<>>
    /\ pc = "idle"
    /\ candidates = <<>>
    /\ ci = 0
    /\ lastIndex = 0
    /\ execs = 0
    /\ allMatches = <<>>
    /\ secrets = <<>>
    /\ replacer = ""
    /\ nextId = 0
    /\ result = <<>>
    /\ ri = 0
    /\ calls = <<>>
    /\ allowlistLastIndex = <<>>
    /\ returns = <<>>

EntropyInit ==
    /\ NoCall
    /\ detectors = <<>>
    /\ gi = 0
    /\ ruleIds = <<>>
    /\ skippedIds = <<>>
    /\ entropyArg \in EntropyInputs
    /\ entropy = <<>>

\* entropy.ts:10-26: the call shannonEntropy(entropyArg) returns
EntropyCall ==
    /\ entropy = <<>>
    /\ entropy' = <<shannonEntropy(entropyArg)>>
    /\ UNCHANGED <<scanVars, generatorVars, entropyArg>>

EntropyNext == EntropyCall

EntropySpec == EntropyInit /\ [][EntropyNext]_vars

(***************************************************************************)
(* The rule generator (scripts/update-rules.ts) and the corpus index.ts    *)
(* builds from its output.  A detector is a directory of the detectors     *)
(* tree, one or two levels deep, with the number of its patterns that      *)
(* converted (none when the detector is excluded or nothing converts).     *)
(***************************************************************************)
\* detector directories, in the order of the sort of update-rules.ts:132
DetectorDirs == <<
    <<"x">>,
    <<"x","-","1">>,
    <<"x","/","1">>,
    <<"y">>
>>

\* update-rules.ts:141: detDir.replace(/\//g, '-')
DetectorId(detDir) == [k \in 1..Len(detDir) |-> IF detDir[k] = "/" THEN "-" ELSE detDir[k]]

\* the detectors of the directories at the positions in sel, in order, the
\* detector at position k having patterns[k] patterns that convert and
\* failures[k] patterns for which convertGoRegex returns null
RECURSIVE ExtractedDetectors(_, _, _, _)
ExtractedDetectors(sel, patterns, failures, n) ==
    IF n = 0 THEN <<>>
    ELSE IF n \in sel
    THEN Append(ExtractedDetectors(sel, patterns, failures, n - 1),
                [id |-> DetectorId(DetectorDirs[n]), converted |-> patterns[n],
                 failed |-> failures[n]])
    ELSE ExtractedDetectors(sel, patterns, failures, n - 1)

\* update-rules.ts:337: the id of the rule of pattern i (from 0) of a detector
RuleId(detector, i) ==
    IF detector.converted = 1 THEN detector.id
    ELSE detector.id \o <<"-">> \o NumberToString(i + 1)

\* custom-rules.ts:25,40,52
CustomRuleIds == <<
    <<"g","e","n","e","r","i","c","-","s","k","-","s","e","c","r","e","t">>,
    <<"d","a","t","a","b","a","s","e","-","c","o","n","n","e","c","t","i","o","n","-",
      "s","t","r","i","n","g">>,
    <<"b","e","a","r","e","r","-","t","o","k","e","n">>
>>

GeneratorInit ==
    /\ NoCall
    /\ entropyArg = <<>>
    /\ entropy = <<>>
    /\ \E sel \in SUBSET (1..Len(DetectorDirs)) :
       \E patterns \in [1..Len(DetectorDirs) -> 0..MaxPatterns] :
       \E failures \in [1..Len(DetectorDirs) -> 0..MaxFailed] :
          /\ \A n \in 1..Len(DetectorDirs) :
                n \notin sel => patterns[n] = 0 /\ failures[n] = 0
          /\ detectors = ExtractedDetectors(sel, patterns, failures, Len(DetectorDirs))
    /\ gi = 0
    /\ ruleIds = <<>>
    /\ skippedIds = <<>>

\* update-rules.ts:303-349: one iteration of the loop over the detectors
EmitRules ==
    /\ pc = "idle"
    /\ gi < Len(detectors)
    /\ ruleIds' = ruleIds \o [i \in 1..detectors[gi + 1].converted |->
                                 RuleId(detectors[gi + 1], i - 1)]
    /\ skippedIds' = IF detectors[gi + 1].converted = 0
                     THEN Append(skippedIds, detectors[gi + 1].id)
                     ELSE skippedIds
    /\ gi' = gi + 1
    /\ UNCHANGED <<scanVars, detectors, entropyArg, entropy>>

\* index.ts:14: rules = [...trufflehogRules, ...customRules]
BuildCorpus ==
    /\ pc = "idle"
    /\ gi = Len(detectors)
    /\ ruleIds' = ruleIds \o CustomRuleIds
    /\ pc' = "built"
    /\ UNCHANGED <<input, rules, keywordIndex, rulesWithoutKeywords, candidates, ci,
                   lastIndex, execs, allMatches, secrets, replacer, nextId, result, ri,
                   calls, allowlistLastIndex, returns, detectors, gi, skippedIds, entropyArg,
                   entropy>>

GeneratorNext ==
    \/ EmitRules
    \/ BuildCorpus

GeneratorSpec == GeneratorInit /\ [][GeneratorNext]_vars

(***************************************************************************)
(* Properties.                                                             *)
(***************************************************************************)
\* scan has returned: `secrets` is its result
Returned == pc \in {"returned", "redact", "done"}

SpanLength(c) == c.end - c.start

SameSpan(a, b) == a.start = b.start /\ a.end = b.end

Intersects(a, b) == a.start < b.end /\ a.end > b.start

\* a's span contains b's span and is longer
StrictlyContains(a, b) ==
    a.start <= b.start /\ b.end <= a.end /\ SpanLength(b) < SpanLength(a)

\* c's span is the span of a returned Secret
InOutput(c) == \E k \in 1..Len(secrets) : SameSpan(secrets[k], c)

Pool == Range(allMatches)

\* C1: every Secret that scan returns lies inside the input and its span
\* holds its text: 0 <= start <= end <= len(input), input[start:end] = text.
C1_SpanHoldsText ==
    Returned =>
        \A k \in 1..Len(secrets) :
            /\ 0 <= secrets[k].start
            /\ secrets[k].start <= secrets[k].end
            /\ secrets[k].end <= Len(input)
            /\ Slice(input, secrets[k].start, secrets[k].end) = secrets[k].text

\* C2: the returned list is in strictly ascending order of start and
\* consecutive spans do not intersect.
C2_SortedDisjoint ==
    Returned =>
        \A k \in 1..(Len(secrets) - 1) :
            /\ secrets[k].start < secrets[k + 1].start
            /\ secrets[k].end <= secrets[k + 1].start

\* C2 witness: scan returned several Secrets out of a pool in which two
\* candidates intersected.
C2_Witness ==
    /\ Returned
    /\ Len(secrets) >= 2
    /\ \E a, b \in Pool : ~SameSpan(a, b) /\ Intersects(a, b)

\* a candidate of another span that the sort of index.ts:258-262 puts before
\* a, and that intersects a: a longer one, or one as long that starts before
Outranked(a) ==
    \E c \in Pool :
        /\ Intersects(c, a)
        /\ \/ SpanLength(c) > SpanLength(a)
           \/ SpanLength(c) = SpanLength(a) /\ c.start < a.start

CallFor(k) == calls[Len(secrets) - k + 1]

\* the input up to the end of secrets[k] with the first k spans replaced by
\* what the replacer returned for them, built from left to right
RECURSIVE Rebuilt(_)
Rebuilt(k) ==
    IF k = 0 THEN <<>>
    ELSE Rebuilt(k - 1)
            \o Slice(input, IF k = 1 THEN 0 ELSE secrets[k - 1].end, secrets[k].start)
            \o CallFor(k).returned

Expected ==
    IF Len(secrets) = 0 THEN input
    ELSE Rebuilt(Len(secrets)) \o SliceFrom(input, secrets[Len(secrets)].end)

\* C4: redact returns the input with exactly the spans of the Secrets of
\* scan(input) replaced, each by what the replacer returned for that Secret,
\* and every character outside the spans kept in place, whatever the
\* lengths of the replacements.
C4_SpansReplaced == pc = "done" => result = Expected

\* C4 witness: redact returned after replacing several secrets, one of them
\* by a longer and one by a shorter or equally long string.
C4_Witness ==
    /\ pc = "done"
    /\ Len(secrets) >= 2
    /\ \E j, k \in 1..Len(calls) :
          /\ Len(calls[j].returned) > Len(calls[j].args[1].text)
          /\ Len(calls[k].returned) <= Len(calls[k].args[1].text)

\* C5: redact calls the replacer once for each Secret of scan(input), the
\* right-most first and in strictly descending order of start, and each
\* call sees the string with the replacements of the earlier calls spliced in.
C5_RightToLeft ==
    pc \in {"redact", "done"} =>
        /\ Len(calls) = IF pc = "done" THEN Len(secrets) ELSE Len(secrets) - 1 - ri
        /\ \A k \in 1..Len(calls) :
              /\ Len(calls[k].args) >= 1
              /\ calls[k].args[1] = secrets[Len(secrets) - k + 1]
              /\ calls[k].before =
                    IF k = 1 THEN input
                    ELSE Splice(calls[k - 1].before, calls[k - 1].args[1],
                                calls[k - 1].returned)
        /\ \A k \in 1..(Len(calls) - 1) :
              calls[k].args[1].start > calls[k + 1].args[1].start
        /\ Len(calls) >= 1 =>
              result = Splice(calls[Len(calls)].before, calls[Len(calls)].args[1],
                              calls[Len(calls)].returned)

\* C5 witness: inside the loop, a replacement of another length than its
\* secret has been spliced in and the replacer is about to be called again.
C5_Witness ==
    /\ pc = "redact"
    /\ ri >= 0
    /\ Len(calls) >= 1
    /\ Len(calls[1].returned) # Len(calls[1].args[1].text)

\* C6 as stated: with the counting replacer, redact numbers the secrets in
\* their order of appearance: the left-most is replaced by the label
\* numbered 0, the next one by 1, and so on.
C6_NumberedLeftToRight ==
    pc = "done" /\ replacer = "counter" =>
        \A k \in 1..Len(secrets) :
            CallFor(k).returned = SecretLabel(NumberToString(k - 1))

\* C7 as stated: redact passes the replacer a second argument, the
\* zero-based index of the secret among the detected secrets, so that the
\* replacer (secret, index) => `[secret:${index}]` puts '[secret:0]' in place
\* of the only secret of an input.
C7_IndexArgument ==
    /\ \A k \in 1..Len(calls) :
          /\ Len(calls[k].args) >= 2
          /\ calls[k].args[2] \in 0..(Len(secrets) - 1)
          /\ secrets[calls[k].args[2] + 1] = calls[k].args[1]
    /\ pc = "done" /\ replacer = "index" /\ Len(secrets) = 1 =>
          result = Splice(input, secrets[1], SecretLabel(<<"0">>))

\* the replacer returned nothing that contains the text of a detected secret
ReturnsHoldNoSecret ==
    \A k \in 1..Len(calls) : \A j \in 1..Len(secrets) :
        ~Includes(calls[k].returned, secrets[j].text)

\* C8 as stated: when the replacer's return values contain none of the
\* detected secret texts, the string redact returns contains no occurrence
\* of the text of any Secret that scan(input) returned.
C8_NoSecretTextLeft ==
    pc = "done" /\ ReturnsHoldNoSecret =>
        \A j \in 1..Len(secrets) : ~Includes(result, secrets[j].text)

\* C9 as stated: the matching loop of a rule always advances its cursor,
\* for an emitted match and for a skipped one, of any length.
C9_CursorAdvances == [][MatchIteration => lastIndex' > lastIndex]_vars

\* C10: when scan(input) finds nothing, redact returns the input unchanged
\* and never calls the replacer; scan of the empty string returns an empty
\* list.
C10_NothingFound ==
    /\ pc = "done" /\ Len(secrets) = 0 => result = input /\ calls = <<>>
    /\ Returned /\ input = <<>> => secrets = <<>>

\* C10 witness: the rules were run over a non-empty input, none of them
\* found anything, and redact has returned.
C10_Witness ==
    /\ pc = "done"
    /\ input # <<>>
    /\ candidates # <<>>
    /\ Len(secrets) = 0

\* the rules whose pattern the for-of loop of index.ts:209-211 has been run
\* for so far in the call, in order
RanRules ==
    IF pc = "scan" THEN <<>> ELSE SubSeq(candidates, 1, Min(ci, Len(candidates)))

RunCount(ref) == Cardinality({k \in 1..Len(RanRules) : RanRules[k] = ref})

\* the rule has no keywords, or one of its keywords, lowercased, is a
\* substring of the lowercased input
KeywordSelects(ref) ==
    \/ Len(TheRule(ref).keywords) = 0
    \/ \E k \in 1..Len(TheRule(ref).keywords) :
          Includes(ToLowerCase(input), ToLowerCase(TheRule(ref).keywords[k]))

IsPrefixedFiller(text) ==
    \E n \in 1..Len(KNOWN_PREFIXES) :
        /\ StartsWith(text, KNOWN_PREFIXES[n])
        /\ Cardinality(Range(CodePoints(SliceFrom(text, Len(KNOWN_PREFIXES[n]))))) <= 1

\* C12: no candidate whose secret text is a known prefix followed only by
\* repetitions of one character, or by nothing, survives filtering or is
\* returned by scan, whatever rule matched it.
C12_NoPrefixedFiller ==
    pc = "returned" =>
        /\ \A c \in Pool : ~IsPrefixedFiller(c.text)
        /\ \A k \in 1..Len(secrets) : ~IsPrefixedFiller(secrets[k].text)

\* C12 witness: scan has returned, and the first match of a rule without
\* entropy threshold was a known prefix followed by a run of two or more
\* occurrences of one character.
C12_Witness ==
    /\ Returned
    /\ \E k \in 1..Len(candidates) :
          LET rule == TheRule(candidates[k])
              m    == Exec(LocalRegex(rule), input, 0)
          IN  /\ rule.entropy = <<>>
              /\ m.found
              /\ IsPrefixedFiller(extractSecret(m.match, rule))
              /\ Len(SliceFrom(extractSecret(m.match, rule),
                               Len(LongestPrefix(extractSecret(m.match, rule),
                                                 Len(KNOWN_PREFIXES))))) >= 2

\* the characters of the argument (code points) and how often each occurs
EntropyChars == Range(CodePoints(entropyArg))

Occurrences(ch) == Freq(CodePoints(entropyArg), ch)

EquallyFrequent == \A x, y \in EntropyChars : Occurrences(x) = Occurrences(y)

\* C13 as stated: shannonEntropy is never negative, is 0 for the empty
\* string and for one character repeated, and is log2(n) when n distinct
\* characters occur equally often, also for characters of two code units.
C13_EntropyValues ==
    entropy # <<>> =>
        /\ entropy[1] >= 0
        /\ Cardinality(EntropyChars) <= 1 => entropy[1] = 0
        /\ Cardinality(EntropyChars) >= 1 /\ EquallyFrequent =>
              entropy[1] = Log2Micro[Cardinality(EntropyChars)]

\* the same for arguments without surrogate halves
C13_EntropyValuesBMP ==
    entropyArg \in Seq({"a", "b", "c", "d"}) => C13_EntropyValues

\* C14: the confidence of a Secret is 'medium' exactly when its rule id is
\* one of generic-sk-secret, bearer-token, sanity-bare, and 'high' for every
\* other rule id, whatever its text, entropy or position.
C14_ConfidenceByRuleId ==
    pc = "returned" =>
        \A c \in Pool \cup Range(secrets) :
            c.confidence = IF c.rule \in GENERIC_RULE_IDS THEN "medium" ELSE "high"

\* C14 witness: scan returned a 'medium' Secret while a candidate of another
\* rule with the same text and span was 'high'.
C14_Witness ==
    /\ Returned
    /\ \E k \in 1..Len(secrets) : \E c \in Pool :
          /\ secrets[k].confidence = "medium"
          /\ c.confidence = "high"
          /\ c.text = secrets[k].text
          /\ SameSpan(c, secrets[k])

(***************************************************************************)
(* C15: scan leaves all shared state unchanged: no step of a call changes  *)
(* the input's rule list, the keyword index, the always-active list or the *)
(* lastIndex of a shared rule pattern or allowlist regex.  The rule        *)
(* patterns are copied per call (index.ts:211), so the shared cursors are  *)
(* those of the allowlist regexes.                                         *)
(***************************************************************************)
C15_SharedStateUnchanged ==
    [][/\ rules' = rules
       /\ keywordIndex' = keywordIndex
       /\ rulesWithoutKeywords' = rulesWithoutKeywords
       /\ allowlistLastIndex' = allowlistLastIndex]_vars

(***************************************************************************)
(* C16: every scan call returns what it would return when run alone, that  *)
(* is what the first call on the input returned, whatever calls came       *)
(* before it, a call made from inside a replacer included.                 *)
(***************************************************************************)
C16_ReturnsAsAlone ==
    \A k \in 1..Len(returns) : returns[k] = returns[1]

(***************************************************************************)
(* C17: rule ids are unique: the generator never emits two rules with the  *)
(* same id, and in the corpus built from its rules and the custom rules no *)
(* two rules share an id.                                                  *)
(***************************************************************************)
C17_RuleIdsUnique ==
    \A j, k \in 1..Len(ruleIds) : ruleIds[j] = ruleIds[k] => j = k

\* the rule of the corpus with the given id
RuleById(id) == CHOOSE r \in {TheRule(rules[k]) : k \in 1..Len(rules)} : r.id = id

\* The checks of index.ts:223-237 as far as the candidate itself decides
\* them: the entropy threshold, the placeholder check, the global allowlist
\* and the rule's stopwords; and, for a rule whose whole match is the secret,
\* the rule's allowlist regexes without g flag, on the secret, the match or
\* the line.  (A g-flag allowlist regex decides by its cursor at the time.)
Survives(c) ==
    \E rule \in {RuleById(c.rule)} :
        /\ c.text # <<>>
        /\ rule.entropy = <<>> \/ shannonEntropy(c.text) >= rule.entropy[1]
        /\ ~isPlaceholder(c.text)
        /\ ~isGlobalAllowlisted(c.text)
        /\ rule.allowlist # <<>> =>
              /\ \A k \in 1..Len(rule.allowlist[1].stopwords) :
                    ~Includes(ToLowerCase(c.text),
                              ToLowerCase(rule.allowlist[1].stopwords[k]))
              /\ rule.regex.ngroups = 0 =>
                    \A k \in 1..Len(rule.allowlist[1].regexes) :
                       LET entry == rule.allowlist[1].regexes[k]
                       IN  "g" \notin entry.regex.flags =>
                              ~Test(entry.regex,
                                    IF entry.target = "line"
                                    THEN getLineForIndex(input, c.start)
                                    ELSE c.text)

(***************************************************************************)
(* C18: a match that the entropy, placeholder or allowlist checks reject   *)
(* takes no part in overlap resolution: when scan returns, every candidate *)
(* of the pool passes the checks, the returned Secrets are candidates of   *)
(* the pool, and a candidate of the pool that is not returned intersects a *)
(* returned Secret, so only a valid candidate makes a valid one drop.      *)
(***************************************************************************)
C18_OnlySurvivorsResolved ==
    pc = "returned" =>
        /\ \A c \in Pool : Survives(c)
        /\ \A k \in 1..Len(secrets) : secrets[k] \in Pool
        /\ \A c \in Pool :
              c \notin Range(secrets) =>
                  \E k \in 1..Len(secrets) : Intersects(secrets[k], c)

\* C18 witness: the first match of a candidate rule, longer than a returned
\* Secret that it intersects, was rejected by one of the checks.
C18_Witness ==
    /\ pc = "returned"
    /\ \E k \in 1..Len(candidates) :
       \E m \in {Exec(LocalRegex(TheRule(candidates[k])), input, 0)} :
          /\ m.found
          /\ \E secret \in {extractSecret(m.match, TheRule(candidates[k]))} :
             \E rejected \in {[rule  |-> TheRule(candidates[k]).id,
                                text  |-> secret,
                                start |-> SecretStart(secret, m),
                                end   |-> SecretStart(secret, m) + Len(secret)]} :
                /\ secret # <<>>
                /\ ~Survives(rejected)
                /\ \E j \in 1..Len(secrets) :
                      /\ Intersects(secrets[j], rejected)
                      /\ SpanLength(secrets[j]) < SpanLength(rejected)

(***************************************************************************)
(* C19 as stated: every candidate that overlap resolution discards lies    *)
(* entirely inside the span of a strictly longer returned Secret.          *)
(***************************************************************************)
C19_DiscardedInsideLonger ==
    pc = "returned" =>
        \A c \in Pool :
            c \notin Range(secrets) =>
                \E k \in 1..Len(secrets) : StrictlyContains(secrets[k], c)

\* C19 amended: every candidate that overlap resolution discards intersects
\* a returned Secret that is at least as long: a strictly longer one, or one
\* of the same length that does not start after it.
C19_DiscardedMeetsAsLong ==
    pc = "returned" =>
        \A c \in Pool :
            c \notin Range(secrets) =>
                \E k \in 1..Len(secrets) :
                    /\ Intersects(secrets[k], c)
                    /\ \/ SpanLength(secrets[k]) > SpanLength(c)
                       \/ /\ SpanLength(secrets[k]) = SpanLength(c)
                          /\ secrets[k].start <= c.start

\* C19 witness: a discarded candidate reaches outside every returned Secret
\* that it intersects.
C19_Witness ==
    /\ pc = "returned"
    /\ \E c \in Pool :
          /\ c \notin Range(secrets)
          /\ \E k \in 1..Len(secrets) : Intersects(secrets[k], c)
          /\ \A k \in 1..Len(secrets) :
                Intersects(secrets[k], c) =>
                    c.start < secrets[k].start \/ secrets[k].end < c.end

\* The capture groups that took part in a match (first is the match found:
\* [index, e, g]), and the span of the text that extractSecret
\* (index.ts:171-181) returns for it: that of the declared group (group 1
\* when none is declared, the match for group 0) if it took part, else of
\* the lowest group that took part, else of the match.
GroupsTaken(rule, first) == {k \in 1..rule.regex.ngroups : first.g[k] # <<>>}

SecretSpanOf(rule, first) ==
    LET took     == GroupsTaken(rule, first)
        declared == IF rule.secretGroup = <<>> THEN 1 ELSE rule.secretGroup[1]
    IN  IF declared \in took THEN first.g[declared]
        ELSE IF declared # 0 /\ took # {}
        THEN first.g[CHOOSE k \in took : \A j \in took : k <= j]
        ELSE <<first.index, first.e>>

\* the same for the match exec finds from cursor li
GroupsInMatch(rule, s, li) ==
    CHOOSE took \in {GroupsTaken(rule, first[1]) :
                        first \in {FirstMatch(LocalRegex(rule), s, li)}} : TRUE

SecretSpan(rule, s, li) ==
    CHOOSE span \in {SecretSpanOf(rule, first[1]) :
                        first \in {FirstMatch(LocalRegex(rule), s, li)}} : TRUE

(***************************************************************************)
(* C20: the start reported for a Secret is the offset at which the capture *)
(* group that supplied its text matched (the match start when the whole    *)
(* match is the secret): each candidate that an iteration of the match     *)
(* loop pools starts where the group of that iteration's match starts.     *)
(***************************************************************************)
C20_StartIsGroupOffset ==
    [][Len(allMatches') = Len(allMatches) + 1 =>
          \E span \in {SecretSpan(CurrentRule, input, lastIndex)} :
              allMatches'[Len(allMatches')].start = span[1]]_vars

\* the position in the rule list of index.ts:14 of the rule with the given id
RulePosition(id) == CHOOSE k \in 1..Len(rules) : TheRule(rules[k]).id = id

(***************************************************************************)
(* C21: when two rules produce surviving candidates of the same span, the  *)
(* Secret returned for that span carries the rule that comes first in the  *)
(* rule list.                                                              *)
(***************************************************************************)
C21_FirstRuleOfListWins ==
    pc = "returned" =>
        \A k \in 1..Len(secrets) :
            \A c \in Pool :
                SameSpan(c, secrets[k]) =>
                    RulePosition(secrets[k].rule) <= RulePosition(c.rule)

\* the step is an iteration of the match loop of index.ts:214-252
IsMatchIteration == pc = "match" /\ execs' = execs + 1

\* that iteration pushed a candidate (index.ts:241)
Pooled == Len(allMatches') = Len(allMatches) + 1

(***************************************************************************)
(* C22: in every iteration of the match loop, a candidate pooled for a     *)
(* rule with an entropy threshold has an entropy of at least the threshold *)
(* (so no returned Secret is below it), and a match that no other check    *)
(* rejects is dropped only when its rule has a threshold and its entropy   *)
(* is strictly below it: entropy equal to the threshold passes, and a rule *)
(* without threshold is not entropy-filtered.                              *)
(***************************************************************************)
C22_EntropyThreshold ==
    [][IsMatchIteration =>
          \E m \in {CurrentExec} : \E secret \in {extractSecret(m.match, CurrentRule)} :
              /\ Pooled /\ CurrentRule.entropy # <<>> =>
                    shannonEntropy(secret) >= CurrentRule.entropy[1]
              /\ (/\ ~Pooled
                  /\ secret # <<>>
                  /\ ~isPlaceholder(secret)
                  /\ ~isGlobalAllowlisted(secret)
                  /\ ~isRuleAllowlisted(CurrentRule, secret, m.match[1][1],
                                        getLineForIndex(input, m.index)))
                    => /\ CurrentRule.entropy # <<>>
                       /\ shannonEntropy(secret) < CurrentRule.entropy[1]]_vars

\* C22 witness: scan returned a Secret whose entropy is exactly its rule's
\* threshold.
C22_Witness ==
    /\ pc = "returned"
    /\ \E k \in 1..Len(secrets) :
          /\ RuleById(secrets[k].rule).entropy # <<>>
          /\ shannonEntropy(secrets[k].text) = RuleById(secrets[k].rule).entropy[1]

\* the known prefixes that the secret starts with, as a set
PrefixesOf(secret) ==
    {KNOWN_PREFIXES[k] : k \in {j \in 1..Len(KNOWN_PREFIXES) :
                                   StartsWith(secret, KNOWN_PREFIXES[j])}}

\* the secret starts with a known prefix, and what follows the longest one
\* it starts with is empty or has an entropy below MIN_SUFFIX_ENTROPY
LongestPrefixLeavesFiller(secret) ==
    \E prefixes \in {PrefixesOf(secret)} :
    \E prefix \in prefixes :
        /\ \A other \in prefixes : Len(other) <= Len(prefix)
        /\ \/ Len(secret) = Len(prefix)
           \/ shannonEntropy(SliceFrom(secret, Len(prefix))) < MIN_SUFFIX_ENTROPY

(***************************************************************************)
(* C23: the placeholder check decides by the suffix after the longest      *)
(* known prefix that the secret starts with, whatever the order of the     *)
(* list: in every iteration of the match loop a pooled candidate is not a  *)
(* longest-prefix-plus-filler, a match that no other check rejects is      *)
(* dropped only when it is one, and the placeholder check passes every     *)
(* secret that starts with no known prefix.                                *)
(***************************************************************************)
C23_LongestPrefixStripped ==
    [][IsMatchIteration =>
          \E m \in {CurrentExec} : \E secret \in {extractSecret(m.match, CurrentRule)} :
              \E filler \in {LongestPrefixLeavesFiller(secret)} :
              /\ Pooled => ~filler
              /\ PrefixesOf(secret) = {} => ~isPlaceholder(secret)
              /\ (/\ ~Pooled
                  /\ secret # <<>>
                  /\ CurrentRule.entropy = <<>>
                       \/ shannonEntropy(secret) >= CurrentRule.entropy[1]
                  /\ ~isGlobalAllowlisted(secret)
                  /\ ~isRuleAllowlisted(CurrentRule, secret, m.match[1][1],
                                        getLineForIndex(input, m.index)))
                    => filler]_vars

\* C23 witness: scan returned nothing for an input that starts with
\* 'sk-proj-' and so with 'sk-', whose text after 'sk-proj-' is filler while
\* its text after 'sk-' is not.
C23_Witness ==
    /\ pc = "returned"
    /\ \E k \in 1..Len(candidates) :
          \E m \in {Exec(LocalRegex(TheRule(candidates[k])), input, 0)} :
              m.found /\ extractSecret(m.match, TheRule(candidates[k])) = input
    /\ secrets = <<>>
    /\ StartsWith(input, <<"s","k","-","p","r","o","j","-">>)
    /\ Len(input) > 8
    /\ shannonEntropy(SliceFrom(input, 8)) < MIN_SUFFIX_ENTROPY
    /\ shannonEntropy(SliceFrom(input, 3)) >= MIN_SUFFIX_ENTROPY

\* the two strings are the same up to letter case
EqualsIgnoringCase(a, b) ==
    /\ Len(a) = Len(b)
    /\ \A k \in 1..Len(a) : ToLowerChar(a[k]) = ToLowerChar(b[k])

\* word occurs in s up to letter case
ContainsIgnoringCase(s, word) ==
    \E i \in 0..(Len(s) - Len(word)) :
        \A k \in 1..Len(word) : ToLowerChar(s[i + k]) = ToLowerChar(word[k])

EqualsGlobalStopword(secret) ==
    \E k \in 1..Len(globalAllowlist.stopwords) :
        EqualsIgnoringCase(secret, globalAllowlist.stopwords[k])

ContainsRuleStopword(rule, secret) ==
    /\ rule.allowlist # <<>>
    /\ \E k \in 1..Len(rule.allowlist[1].stopwords) :
          ContainsIgnoringCase(secret, rule.allowlist[1].stopwords[k])

\* a regex of the global allowlist or of the rule's allowlist matches
AllowlistRegexHit(rule, secret, fullMatch, line) ==
    \/ \E k \in 1..Len(globalAllowlist.regexes) :
          Test(globalAllowlist.regexes[k].regex, secret)
    \/ /\ rule.allowlist # <<>>
       /\ TestAllowlistRegexes(rule.allowlist[1].regexes, 1, allowlistLastIndex[rule.id],
                               secret, fullMatch, line).found

(***************************************************************************)
(* C24: a global stopword rejects a candidate only when the secret equals  *)
(* it ignoring case, a stopword of the rule whenever the secret contains   *)
(* it ignoring case: in every iteration of the match loop a pooled         *)
(* candidate neither equals a global stopword nor contains a stopword of   *)
(* its rule, and a match that the entropy, placeholder and regex checks    *)
(* pass is dropped only when it equals a global stopword or contains a     *)
(* stopword of its rule.                                                   *)
(***************************************************************************)
C24_StopwordsEqualOrContain ==
    [][IsMatchIteration =>
          \E m \in {CurrentExec} : \E secret \in {extractSecret(m.match, CurrentRule)} :
              /\ Pooled =>
                    /\ ~EqualsGlobalStopword(secret)
                    /\ ~ContainsRuleStopword(CurrentRule, secret)
              /\ (/\ ~Pooled
                  /\ secret # <<>>
                  /\ CurrentRule.entropy = <<>>
                       \/ shannonEntropy(secret) >= CurrentRule.entropy[1]
                  /\ ~isPlaceholder(secret)
                  /\ ~AllowlistRegexHit(CurrentRule, secret, m.match[1][1],
                                        getLineForIndex(input, m.index)))
                    => \/ EqualsGlobalStopword(secret)
                       \/ ContainsRuleStopword(CurrentRule, secret)]_vars

\* C24 witness: scan returned a Secret that holds a global stopword and more
\* for an input in which a match that holds a stopword of its rule and more
\* was dropped.
C24_Witness ==
    /\ pc = "returned"
    /\ \E k \in 1..Len(secrets) :
          /\ \E j \in 1..Len(globalAllowlist.stopwords) :
                ContainsIgnoringCase(secrets[k].text, globalAllowlist.stopwords[j])
          /\ ~EqualsGlobalStopword(secrets[k].text)
          /\ \E ref \in Range(candidates) :
                /\ ContainsRuleStopword(TheRule(ref), secrets[k].text)
                /\ TheRule(ref).regex = RuleById(secrets[k].rule).regex

\* the maximal newline-free substring of s around the 0-based offset i
LineAround(s, i) ==
    LET a == CHOOSE a \in 0..i :
                 /\ a = 0 \/ s[a] = "\n"
                 /\ \A j \in (a + 1)..i : s[j] # "\n"
        b == CHOOSE b \in i..Len(s) :
                 /\ b = Len(s) \/ s[b + 1] = "\n"
                 /\ \A j \in (i + 1)..b : s[j] # "\n"
    IN  Slice(s, a, b)

\* the text an allowlist entry of a rule is about, for the match m
TargetText(entry, secret, m) ==
    IF entry.target = "line" THEN LineAround(input, m.index)
    ELSE IF entry.target = "match" THEN m.match[1][1]
    ELSE secret

\* an allowlist regex of the rule matches its target text
RuleAllowlistRegexMatches(rule, secret, m) ==
    /\ rule.allowlist # <<>>
    /\ \E k \in 1..Len(rule.allowlist[1].regexes) :
          FirstMatch(rule.allowlist[1].regexes[k].regex,
                     TargetText(rule.allowlist[1].regexes[k], secret, m), 0) # <<>>

(***************************************************************************)
(* C25: a rule allowlist regex is tested on the line around the match for  *)
(* target 'line', on the match text for target 'match' and on the secret   *)
(* otherwise, the global allowlist regexes on the secret, and a hit of any *)
(* of them rejects the candidate: no iteration of the match loop pools a   *)
(* candidate for which an allowlist regex matches its target text.         *)
(***************************************************************************)
C25_AllowlistRegexHitRejects ==
    [][IsMatchIteration /\ Pooled =>
          \E m \in {CurrentExec} : \E secret \in {extractSecret(m.match, CurrentRule)} :
              /\ ~RuleAllowlistRegexMatches(CurrentRule, secret, m)
              /\ \A k \in 1..Len(globalAllowlist.regexes) :
                    FirstMatch(globalAllowlist.regexes[k].regex, secret, 0) = <<>>]_vars

(***************************************************************************)
(* C26: the secret text of a match is the text of the rule's declared      *)
(* group (group 1 when none is declared) if that group took part in the    *)
(* match, else of the lowest-numbered group that took part, else the whole *)
(* match: every candidate that an iteration of the match loop pools has    *)
(* that text.                                                              *)
(***************************************************************************)
C26_SecretFromGroup ==
    [][IsMatchIteration /\ Pooled =>
          \E span \in {SecretSpan(CurrentRule, input, lastIndex)} :
              allMatches'[Len(allMatches')].text = Slice(input, span[1], span[2])]_vars

\* C26 witness: scan returned a Secret of a rule whose declared group stayed
\* out of the match, its text that of a lower group that took part.
C26_Witness ==
    /\ pc = "returned"
    /\ \E k \in 1..Len(secrets) :
       \E rule \in {RuleById(secrets[k].rule)} :
          /\ rule.secretGroup # <<>>
          /\ rule.secretGroup[1] >= 1
          /\ FirstMatch(LocalRegex(rule), input, 0) # <<>>
          /\ rule.secretGroup[1] \notin GroupsInMatch(rule, input, 0)
          /\ GroupsInMatch(rule, input, 0) # {}
          /\ \E span \in {SecretSpan(rule, input, 0)} :
                secrets[k].text = Slice(input, span[1], span[2])

(***************************************************************************)
(* C27: every pattern that fails conversion or compilation is left out of  *)
(* the generated rules and is reported among the skipped items: a detector *)
(* the generator has handled yields as many rules as it has patterns that  *)
(* convert, and is named in the diagnostics when one of its patterns       *)
(* failed.                                                                 *)
(***************************************************************************)
C27_FailuresLeftOutAndReported ==
    /\ gi = Len(detectors) /\ pc = "idle" =>
          Len(ruleIds) = Len(Flat([k \in 1..Len(detectors) |->
                                     [i \in 1..detectors[k].converted |-> k]]))
    /\ \A k \in 1..gi :
          detectors[k].failed > 0 => detectors[k].id \in Range(skippedIds)

\* candidate c of the pool intersects no other candidate of the pool
Isolated(c) == \A d \in Pool \ {c} : ~Intersects(c, d)

\* candidates a and b of the pool only touch: b starts where a ends
Touch(a, b) == a.end = b.start

\* every candidate of the pool that is not returned intersects a returned
\* Secret whose span is at least as long, and so a candidate that intersects
\* no other candidate is returned
DroppedMeetAsLong ==
    /\ \A c \in Pool :
          c \notin Range(secrets) =>
              \E k \in 1..Len(secrets) :
                  /\ Intersects(secrets[k], c)
                  /\ SpanLength(secrets[k]) >= SpanLength(c)
    /\ \A c \in Pool : Isolated(c) => c \in Range(secrets)

(***************************************************************************)
(* C28 as stated: when scan returns, every surviving candidate that is not *)
(* returned intersects a returned Secret at least as long as itself, a     *)
(* surviving candidate that intersects no other one is returned, and two   *)
(* surviving candidates whose spans only touch have both spans returned.   *)
(***************************************************************************)
C28_TouchingBothReturned ==
    pc = "returned" =>
        /\ DroppedMeetAsLong
        /\ \A a, b \in Pool :
              Touch(a, b) => InOutput(a) /\ InOutput(b)

\* C28 amended: as above, but two surviving candidates whose spans only
\* touch have both spans returned when neither intersects a third surviving
\* candidate; touching alone never makes one of them drop.
C28_TouchingAloneBothReturned ==
    pc = "returned" =>
        /\ DroppedMeetAsLong
        /\ \A a, b \in Pool :
              /\ Touch(a, b)
              /\ \A d \in Pool \ {a, b} : ~Intersects(a, d) /\ ~Intersects(b, d)
              => InOutput(a) /\ InOutput(b)

\* C28 witness: scan returned two candidates that touch, and dropped a third
\* one that meets a returned Secret at least as long.
C28_Witness ==
    /\ pc = "returned"
    /\ \E a, b \in Pool :
          /\ Touch(a, b)
          /\ a.end > a.start /\ b.end > b.start
          /\ a \in Range(secrets) /\ b \in Range(secrets)
    /\ \E c \in Pool : c \notin Range(secrets)

\* the (start, end) spans of a list of Secrets
SpansOf(list) == {<<list[k].start, list[k].end>> : k \in 1..Len(list)}

\* the orders in which the candidates of a pool can have been pushed
PoolOrders(pool) ==
    {[k \in 1..Len(pool) |-> pool[f[k]]] : f \in Permutations(1..Len(pool))}

(***************************************************************************)
(* C29: the spans that scan returns do not depend on the order in which    *)
(* the matches were pooled: when scan returns, overlap resolution gives    *)
(* the same set of (start, end) spans for every permutation of the pool    *)
(* (pools of up to MaxPermuted candidates are permuted).                   *)
(***************************************************************************)
C29_SpansIndependentOfPoolOrder ==
    pc = "returned" /\ Len(allMatches) <= MaxPermuted =>
        \A order \in PoolOrders(allMatches) :
            SpansOf(ResolveOverlaps(order)) = SpansOf(secrets)

\* C29 witness: scan returned from a pool of which another order attributes
\* a returned span to another rule.
C29_Witness ==
    /\ pc = "returned"
    /\ Len(allMatches) <= MaxPermuted
    /\ \E order \in PoolOrders(allMatches) :
          /\ order # allMatches
          /\ ResolveOverlaps(order) # secrets

(***************************************************************************)
(* C30: every candidate of the pool and every returned Secret has a text   *)
(* that is not empty and a span with start < end: no zero-length span      *)
(* enters overlap resolution or redaction.                                 *)
(***************************************************************************)
C30_NoEmptySecret ==
    \A c \in Pool \cup Range(secrets) : c.text # <<>> /\ c.start < c.end

\* C30 witness: scan returned Secrets, and the first match of a candidate
\* rule, a match that is not empty, had the empty string as its secret.
C30_Witness ==
    /\ pc = "returned"
    /\ secrets # <<>>
    /\ \E k \in 1..Len(candidates) :
       \E m \in {Exec(LocalRegex(TheRule(candidates[k])), input, 0)} :
          /\ m.found
          /\ m.match[1][1] # <<>>
          /\ extractSecret(m.match, TheRule(candidates[k])) = <<>>

====
